---- MODULE Spec2Model ----
(***************************************************************************)
(* Model of the wayvnc damage refinery (src/src/damage-refinery.c), of the  *)
(* capture-session interface (src/include/screencopy-interface.h) and of   *)
(* the control client (src/src/ctl-client.c).                              *)
(*                                                                         *)
(* A region (struct pixman_region16) is modelled by the set of the points  *)
(* it covers; a buffer's pixel memory by a function from word offsets to   *)
(* pixel values.                                                           *)
(***************************************************************************)
EXTENDS Integers, Sequences, FiniteSets, TLC

\* ------------------------------------------------------------------ bounds
MaxWidth == 33          \* widest buffer of the model (a partial tile column)
MaxHeight == 33         \* tallest buffer of the model (a one-row partial tile)
MaxPad == 1             \* padding pixels per row (stride beyond the width)
MaxPixel == 1           \* pixel values are 0..MaxPixel
MaxEvents == 1          \* compositor events (a pixel written, the output
                        \* resized) in one behaviour
HashMod == 7            \* range of the model's hash values, 0..HashMod-1
MaxCycles == 2          \* capture cycles started on the session
MaxCursor == 1          \* cursor events the backend reports
MaxArgs == 2            \* command-line arguments after the method name
MinMsgLen == 2          \* bytes of the shortest message of the server
MaxMsgLen == 513        \* bytes of the longest message of the server
MaxMsgs == 1            \* events the server sends in one behaviour
MaxConnects == 2        \* connections the client makes to the server
MaxSignals == 1         \* SIGINT or SIGTERM signals delivered

\* ------------------------------------------------------- program constants
TileSize == 32

\* sizeof(read_buffer) of struct ctl_client
ReadBufferSize == 512

NULL == 0

\* ---------------------------------------------------------------- helpers
MIN(a, b) == IF a < b THEN a ELSE b

UDIV_UP(a, b) == (a + b - 1) \div b

\* The points of the rectangle (x, y, w, h).
Rect(x, y, w, h) == (x .. (x + w - 1)) \X (y .. (y + h - 1))

pixman_region_union_rect(source, x, y, w, h) == source \cup Rect(x, y, w, h)

pixman_region_intersect_rect(source, x, y, w, h) ==
    {p \in source : /\ p[1] >= x /\ p[1] < x + w
                    /\ p[2] >= y /\ p[2] < y + h}

\* A read of pixels[i]. Offsets outside the allocation are read only when
\* the dimension assertion of damage_refine is removed.
PixelAt(pixels, i) == IF i \in DOMAIN pixels THEN pixels[i] ELSE 0

\* murmurhash(key, len, seed): a deterministic hash of the len bytes at key
\* that depends on the seed. key is a word offset into the pixel memory; the
\* bytes enter the hash by the sum of the words they form.
murmurhash(pixels, key, len, seed) ==
    (3 * seed + len + 1
       + Cardinality({q \in (0 .. (len \div 4 - 1)) \X (1 .. MaxPixel) :
                         q[2] <= PixelAt(pixels, key + q[1])})) % HashMod

\* ------------------------------------------------------------------ state
VARIABLES
    self,       \* struct damage_refinery: width, height, hashes
    buffer,     \* struct wv_buffer: width, height, stride, y_inverted, pixels
    refined,    \* the caller's region
    aborted,    \* the assertion of damage_refine failed
    op,         \* the last operation
    call,       \* the damage_refine call that has just returned:
                \* what it started from, and the hint after it
    called,     \* damage_refine was called since damage_refinery_init
    dirty,      \* the image pixels changed since the last damage_refine
                \* call, each with the value it had at that call
    events      \* compositor events so far

rvars == <<self, buffer, refined, aborted, op, call, called, dirty, events>>

VARIABLES
    session,    \* state of the capture session
    cycle,      \* number of accepted starts; the current cycle
    ret,        \* return value of the last screencopy_start
    queue,      \* backend events enqueued and not yet dispatched
    completed,  \* cycles the backend has enqueued a completion for
    cancelled,  \* cycles cancelled by stop or destroy
    stopped,    \* cycles cancelled by screencopy_stop
    suppressed, \* cycles whose enqueued completion was dropped
    delivered,  \* per cycle, the results on_done was invoked with
    cursorLog,  \* cursor callbacks invoked
    cursorSent, \* cursor events the backend has reported
    idleStops   \* the situations screencopy_stop was called in with no
                \* cycle in flight

svars == <<session, cycle, ret, queue, completed, cancelled, stopped,
           suppressed, delivered, cursorLog, cursorSent, idleStops>>

VARIABLES
    argv,            \* the arguments of ctl_client_run_command
    request,         \* the request ctl_client_parse_args returned
    pc,              \* where the client is in ctl_client_run_command
    caller,          \* who called read_one_object
    read_buffer,     \* self->read_buffer[0 .. read_len - 1]
    read_len,        \* self->read_len
    wait_for_events, \* self->wait_for_events
    sig_target,      \* the client stop_loop acts on, once setup_signals ran
    flags,           \* self->flags
    errno,
    run_result,          \* the return value of ctl_client_run_command
    printed,         \* the events printed so far
    conn,            \* the connection of self->fd, as the peer left it
    wire,            \* bytes the server sent that the client has not read
    pending,         \* the server has a request to answer
    subscribed,      \* the server has registered the client for events
    server_up,       \* the socket path exists
    sent,            \* the messages the server sent, on all connections
    signals,         \* signals delivered so far
    connects,        \* connections made so far
    lastRecv,        \* the arguments and the result of the last recv
    arrived,         \* the messages recv has taken the last byte of, in order
    roots            \* the objects read_one_object has returned, in order

cvars == <<argv, request, pc, caller, read_buffer, read_len, wait_for_events,
           sig_target, flags, errno, run_result, printed, conn, wire, pending,
           subscribed, server_up, sent, signals, connects, lastRecv, arrived,
           roots>>

\* ------------------------------------------------------- damage-refinery.c
damage_refinery_init(width, height) ==
    LET twidth == UDIV_UP(width, TileSize)
        theight == UDIV_UP(height, TileSize)
    IN [width |-> width, height |-> height,
        hashes |-> [i \in 0 .. (twidth * theight - 1) |-> 0]]

RECURSIVE damage_hash_rows(_, _, _, _, _, _, _, _)
damage_hash_rows(pixels, base, pixel_stride, x_start, x_stop, y, y_stop, hash) ==
    LET h2 == murmurhash(pixels, base + x_start + y * pixel_stride,
                         4 * (x_stop - x_start), hash)
    IN IF y < y_stop /\ h2 >= 0
       THEN damage_hash_rows(pixels, base, pixel_stride, x_start, x_stop,
                y + 1, y_stop, h2)
       ELSE hash

\* damage_hash_tile hashing every row up to the right edge of the buffer.
damage_hash_tile_to_edge(s, tx, ty, b) ==
    LET ps0 == b.stride \div 4
        base == IF b.y_inverted THEN (b.height - 1) * ps0 ELSE 0
        pixel_stride == IF b.y_inverted THEN ps0 * (-1) ELSE ps0
        x_start == tx * TileSize
        x_stop == s.width
        y_start == ty * TileSize
        y_stop == MIN((ty + 1) * TileSize, s.height)
    IN damage_hash_rows(b.pixels, base, pixel_stride, x_start, x_stop,
                        y_start, y_stop, 0)

\* damage_hash_tile reading every buffer top-down.
damage_hash_tile_top_down(s, tx, ty, b) ==
    LET pixel_stride == b.stride \div 4
        x_start == tx * TileSize
        x_stop == MIN((tx + 1) * TileSize, s.width)
        y_start == ty * TileSize
        y_stop == MIN((ty + 1) * TileSize, s.height)
    IN damage_hash_rows(b.pixels, 0, pixel_stride, x_start, x_stop,
                        y_start, y_stop, 0)

\* damage_hash_tile seeding a tile's first row with the hash stored for the
\* tile before it.
damage_hash_tile_chained(s, tx, ty, b) ==
    LET ps0 == b.stride \div 4
        base == IF b.y_inverted THEN (b.height - 1) * ps0 ELSE 0
        pixel_stride == IF b.y_inverted THEN ps0 * (-1) ELSE ps0
        x_start == tx * TileSize
        x_stop == MIN((tx + 1) * TileSize, s.width)
        y_start == ty * TileSize
        y_stop == MIN((ty + 1) * TileSize, s.height)
        ptr == tx + ty * UDIV_UP(s.width, TileSize)
    IN damage_hash_rows(b.pixels, base, pixel_stride, x_start, x_stop,
                        y_start, y_stop,
                        IF ptr = 0 THEN 0 ELSE s.hashes[ptr - 1])

damage_hash_tile(s, tx, ty, b) ==
    LET ps0 == b.stride \div 4
        base == IF b.y_inverted THEN (b.height - 1) * ps0 ELSE 0
        pixel_stride == IF b.y_inverted THEN ps0 * (-1) ELSE ps0
        x_start == tx * TileSize
        x_stop == MIN((tx + 1) * TileSize, s.width)
        y_start == ty * TileSize
        y_stop == MIN((ty + 1) * TileSize, s.height)
    IN damage_hash_rows(b.pixels, base, pixel_stride, x_start, x_stop,
                        y_start, y_stop, 0)

damage_tile_hash_ptr(s, tx, ty) ==
    LET twidth == UDIV_UP(s.width, TileSize)
    IN tx + ty * twidth

\* damage_refine_tile reporting every tile as damaged.
damage_refine_tile_always(s, r, tx, ty, b) ==
    LET hash == damage_hash_tile(s, tx, ty, b)
        old_hash_ptr == damage_tile_hash_ptr(s, tx, ty)
    IN [self |-> [s EXCEPT !.hashes[old_hash_ptr] = hash],
        refined |-> pixman_region_union_rect(r, tx * TileSize,
                        ty * TileSize, TileSize, TileSize)]

\* damage_refine_tile storing the tile's rectangle over the region.
damage_refine_tile_overwrite(s, r, tx, ty, b) ==
    LET hash == damage_hash_tile(s, tx, ty, b)
        old_hash_ptr == damage_tile_hash_ptr(s, tx, ty)
        is_damaged == hash # s.hashes[old_hash_ptr]
    IN [self |-> [s EXCEPT !.hashes[old_hash_ptr] = hash],
        refined |-> IF is_damaged
                    THEN pixman_region_union_rect({}, tx * TileSize,
                             ty * TileSize, TileSize, TileSize)
                    ELSE r]

\* damage_refine_tile reporting a damaged tile without storing its hash.
damage_refine_tile_stale(s, r, tx, ty, b) ==
    LET hash == damage_hash_tile(s, tx, ty, b)
        old_hash_ptr == damage_tile_hash_ptr(s, tx, ty)
        is_damaged == hash # s.hashes[old_hash_ptr]
    IN [self |-> s,
        refined |-> IF is_damaged
                    THEN pixman_region_union_rect(r, tx * TileSize,
                             ty * TileSize, TileSize, TileSize)
                    ELSE r]

\* Returns the refinery and the region after the call.
damage_refine_tile(s, r, tx, ty, b) ==
    LET hash == damage_hash_tile(s, tx, ty, b)
        old_hash_ptr == damage_tile_hash_ptr(s, tx, ty)
        is_damaged == hash # s.hashes[old_hash_ptr]
    IN [self |-> [s EXCEPT !.hashes[old_hash_ptr] = hash],
        refined |-> IF is_damaged
                    THEN pixman_region_union_rect(r, tx * TileSize,
                             ty * TileSize, TileSize, TileSize)
                    ELSE r]

\* The two nested loops of damage_refine, from tile (tx, ty) on.
RECURSIVE damage_refine_tiles(_, _, _, _, _)
damage_refine_tiles(s, r, tx, ty, b) ==
    LET twidth == UDIV_UP(s.width, TileSize)
        theight == UDIV_UP(s.height, TileSize)
    IN IF ty >= theight THEN [self |-> s, refined |-> r]
       ELSE IF tx >= twidth THEN damage_refine_tiles(s, r, 0, ty + 1, b)
       ELSE LET t == damage_refine_tile(s, r, tx, ty, b)
            IN damage_refine_tiles(t.self, t.refined, tx + 1, ty, b)

\* damage_refine without the final intersection.
damage_refine_untrimmed(s, r, h, b) ==
    IF ~(s.width = b.width /\ s.height = b.height)
    THEN [self |-> s, refined |-> r, hint |-> h, aborted |-> TRUE]
    ELSE LET t == damage_refine_tiles(s, r, 0, 0, b)
         IN [self |-> t.self, refined |-> t.refined,
             hint |-> h, aborted |-> FALSE]

\* damage_refine without the assertion.
damage_refine_unchecked(s, r, h, b) ==
    LET t == damage_refine_tiles(s, r, 0, 0, b)
    IN [self |-> t.self,
        refined |-> pixman_region_intersect_rect(t.refined, 0, 0,
                        s.width, s.height),
        hint |-> h, aborted |-> FALSE]

\* The loops of damage_refine, skipping the tiles the hint h does not touch.
RECURSIVE damage_refine_hinted_tiles(_, _, _, _, _, _)
damage_refine_hinted_tiles(s, r, tx, ty, b, h) ==
    LET twidth == UDIV_UP(s.width, TileSize)
        theight == UDIV_UP(s.height, TileSize)
    IN IF ty >= theight THEN [self |-> s, refined |-> r]
       ELSE IF tx >= twidth
       THEN damage_refine_hinted_tiles(s, r, 0, ty + 1, b, h)
       ELSE IF \E p \in h.region :
                  p[1] \div TileSize = tx /\ p[2] \div TileSize = ty
       THEN LET t == damage_refine_tile(s, r, tx, ty, b)
            IN damage_refine_hinted_tiles(t.self, t.refined, tx + 1, ty,
                                          b, h)
       ELSE damage_refine_hinted_tiles(s, r, tx + 1, ty, b, h)

\* damage_refine using the hint, when there is one.
damage_refine_hinted(s, r, h, b) ==
    IF ~(s.width = b.width /\ s.height = b.height)
    THEN [self |-> s, refined |-> r, hint |-> h, aborted |-> TRUE]
    ELSE LET t == IF h.null THEN damage_refine_tiles(s, r, 0, 0, b)
                  ELSE damage_refine_hinted_tiles(s, r, 0, 0, b, h)
         IN [self |-> t.self,
             refined |-> pixman_region_intersect_rect(t.refined, 0, 0,
                             s.width, s.height),
             hint |-> h, aborted |-> FALSE]

\* damage_refine cutting the region to the tile grid.
damage_refine_grid_trimmed(s, r, h, b) ==
    IF ~(s.width = b.width /\ s.height = b.height)
    THEN [self |-> s, refined |-> r, hint |-> h, aborted |-> TRUE]
    ELSE LET t == damage_refine_tiles(s, r, 0, 0, b)
         IN [self |-> t.self,
             refined |-> pixman_region_intersect_rect(t.refined, 0, 0,
                             UDIV_UP(s.width, TileSize) * TileSize,
                             UDIV_UP(s.height, TileSize) * TileSize),
             hint |-> h, aborted |-> FALSE]

damage_refine(s, r, h, b) ==
    IF ~(s.width = b.width /\ s.height = b.height)
    THEN [self |-> s, refined |-> r, hint |-> h, aborted |-> TRUE]
    ELSE LET t == damage_refine_tiles(s, r, 0, 0, b)
         IN [self |-> t.self,
             refined |-> pixman_region_intersect_rect(t.refined, 0, 0,
                             s.width, s.height),
             hint |-> h, aborted |-> FALSE]

\* The tiles of order, visited from its i-th on.
RECURSIVE damage_refine_tiles_in_order(_, _, _, _, _)
damage_refine_tiles_in_order(s, r, order, i, b) ==
    IF i > Len(order) THEN [self |-> s, refined |-> r]
    ELSE LET t == damage_refine_tile(s, r, order[i][1], order[i][2], b)
         IN damage_refine_tiles_in_order(t.self, t.refined, order, i + 1, b)

\* damage_refine with its loops visiting the tiles in the given order.
damage_refine_in_order(s, r, h, b, order) ==
    IF ~(s.width = b.width /\ s.height = b.height)
    THEN [self |-> s, refined |-> r, hint |-> h, aborted |-> TRUE]
    ELSE LET t == damage_refine_tiles_in_order(s, r, order, 1, b)
         IN [self |-> t.self,
             refined |-> pixman_region_intersect_rect(t.refined, 0, 0,
                             s.width, s.height),
             hint |-> h, aborted |-> FALSE]

\* ------------------------------------------------------------ environment
\* Buffer sizes: one full tile; a row of two tiles, a column of two tiles
\* and a grid of four, each with partial tiles at its edges.
\* <<width, height, padding pixels per row>>
Configs == {<<TileSize, TileSize, 0>>, <<MaxWidth, 2, MaxPad>>,
            <<2, MaxHeight, 0>>, <<MaxWidth, MaxHeight, MaxPad>>}

\* A buffer of one colour.
NewBuffer(w, h, pad, inv, c) ==
    [width |-> w, height |-> h, stride |-> 4 * (w + pad), y_inverted |-> inv,
     pixels |-> [i \in 0 .. (h * (w + pad) - 1) |-> c]]

\* Where the producer of the buffer stores the logical pixel (x, y); x may
\* lie in the padding of the row.
MemIndex(b, x, y) ==
    LET ps == b.stride \div 4
    IN IF b.y_inverted THEN (b.height - 1 - y) * ps + x ELSE y * ps + x

\* The logical image a buffer holds.
Image(b) == [p \in (0 .. (b.width - 1)) \X (0 .. (b.height - 1)) |->
                b.pixels[MemIndex(b, p[1], p[2])]]

\* The same image stored in the other row order.
Flip(b) ==
    LET ps == b.stride \div 4
    IN [b EXCEPT !.y_inverted = ~b.y_inverted,
                 !.pixels = [i \in DOMAIN b.pixels |->
                     b.pixels[(b.height - 1 - (i \div ps)) * ps + (i % ps)]]]

TileOf(x, y) == <<x \div TileSize, y \div TileSize>>

Tiles(s) == (0 .. (UDIV_UP(s.width, TileSize) - 1))
                \X (0 .. (UDIV_UP(s.height, TileSize) - 1))

\* The first and the last pixel of every tile of the image.
TileCorners(b) ==
    UNION {{<<t[1] * TileSize, t[2] * TileSize>>,
            <<MIN((t[1] + 1) * TileSize, b.width) - 1,
              MIN((t[2] + 1) * TileSize, b.height) - 1>>} : t \in Tiles(b)}

\* The tiles that hold the pixels of dirty.
ChangedTiles(d) == {TileOf(e[1][1], e[1][2]) : e \in d}

\* dirty after the image pixel p, which held old, is set to v.
Touch(d, p, old, v) ==
    IF \E e \in d : e[1] = p
    THEN {e \in d : e[1] # p \/ e[2] # v}
    ELSE d \cup {<<p, old>>}

NullHint == [null |-> TRUE, region |-> {}]
EmptyHint == [null |-> FALSE, region |-> {}]
SomeHint == [null |-> FALSE, region |-> Rect(0, 0, 2, 2)]
Hints == {NullHint, EmptyHint, SomeHint}

\* A rectangle of the caller's own, across the right edge of the buffer.
CallerRect(b) == Rect(b.width - 1, 0, 2, 1)

\* What a caller passes to damage_refine: a fresh region and no hint, or
\* the region it accumulated over the earlier calls, with a rectangle of
\* its own, and a hint.
CallerInputs(b) ==
    {[region |-> {}, hint |-> NullHint],
     [region |-> refined \cup CallerRect(b), hint |-> SomeHint]}

\* Buffers whose size is not the refinery's: wider, lower, both.
Mismatched(b) ==
    {NewBuffer(b.width + d[1], b.height + d[2], 0, b.y_inverted, 0) :
        d \in {<<1, 0>>, <<0, -1>>, <<-1, 1>>}}

NoCall == [hashes |-> <<>>, refined |-> {}, hint |-> NullHint,
           hintAfter |-> NullHint, called |-> FALSE, changed |-> {}]

RInit ==
    /\ \E c \in Configs, inv \in BOOLEAN :
          /\ self = damage_refinery_init(c[1], c[2])
          /\ buffer = NewBuffer(c[1], c[2], c[3], inv, 0)
    /\ dirty = {}
    /\ refined = {}
    /\ aborted = FALSE
    /\ op = "init"
    /\ call = NoCall
    /\ called = FALSE
    /\ events = 0

\* The consumer hands the buffer b to the refinery, with the region r and
\* the hint h.
Refine(b, r, h) ==
    /\ ~aborted
    /\ \E res \in {damage_refine(self, r, h, b)} :
          /\ self' = res.self
          /\ refined' = res.refined
          /\ aborted' = res.aborted
          /\ call' = [hashes |-> self.hashes, refined |-> r, hint |-> h,
                      hintAfter |-> res.hint, called |-> called,
                      changed |-> ChangedTiles(dirty)]
    /\ buffer' = b
    /\ dirty' = {}
    /\ op' = "refine"
    /\ called' = TRUE
    /\ UNCHANGED events
    /\ UNCHANGED <<svars, cvars>>

RefineCurrent ==
    \E in \in CallerInputs(buffer) : Refine(buffer, in.region, in.hint)

\* The output changes its size, and the consumer hands a buffer of the new
\* size to the refinery.
RefineMismatched ==
    /\ events < MaxEvents
    /\ \E b \in Mismatched(buffer) : Refine(b, refined, NullHint)

\* The value a write puts in place of the pixel value v.
NextPixel(v) == (v + 1) % (MaxPixel + 1)

\* The compositor changes one pixel of the image.
WritePixel ==
    /\ ~aborted
    /\ events < MaxEvents
    /\ \E p \in TileCorners(buffer) :
          LET i == MemIndex(buffer, p[1], p[2])
              v == NextPixel(buffer.pixels[i])
          IN /\ buffer' = [buffer EXCEPT !.pixels[i] = v]
             /\ dirty' = Touch(dirty, p, buffer.pixels[i], v)
    /\ events' = events + 1
    /\ op' = "write"
    /\ call' = NoCall
    /\ UNCHANGED <<self, refined, aborted, called>>
    /\ UNCHANGED <<svars, cvars>>

\* The padding between two rows of the image changes.
WritePadding ==
    /\ ~aborted
    /\ events < MaxEvents
    /\ buffer.stride > 4 * buffer.width
    /\ LET i == MemIndex(buffer, buffer.width, 0)
       IN buffer' = [buffer EXCEPT !.pixels[i] = NextPixel(@)]
    /\ events' = events + 1
    /\ op' = "write"
    /\ call' = NoCall
    /\ UNCHANGED <<self, refined, aborted, called, dirty>>
    /\ UNCHANGED <<svars, cvars>>

RNext ==
    \/ RefineCurrent
    \/ RefineMismatched
    \/ WritePixel
    \/ WritePadding

\* ------------------------------------------------- screencopy-interface.h
screencopy_result == {"SCREENCOPY_DONE", "SCREENCOPY_FATAL",
                      "SCREENCOPY_FAILED"}

\* The callback slots of struct screencopy that report cursor events.
cursor_callbacks == {"cursor_enter", "cursor_leave", "cursor_hotspot"}

SInit ==
    /\ session = "CREATED"
    /\ cycle = 0
    /\ ret = 0
    /\ queue = <<>>
    /\ completed = {}
    /\ cancelled = {}
    /\ stopped = {}
    /\ suppressed = {}
    /\ delivered = [c \in 1 .. MaxCycles |-> <<>>]
    /\ cursorLog = <<>>
    /\ cursorSent = 0
    /\ idleStops = {}

\* Why no cycle is in flight: none was started, the last one completed, or
\* it was stopped.
Idle ==
    IF cycle = 0 THEN "never started"
    ELSE IF cycle \in stopped THEN "stopped"
    ELSE "completed"

\* screencopy_start starting a new cycle over the one in flight.
screencopy_start_overwrite(immediate) ==
    /\ session \in {"CREATED", "STARTED"}
    /\ cycle < MaxCycles
    /\ session' = "STARTED"
    /\ cycle' = cycle + 1
    /\ ret' = 0
    /\ UNCHANGED <<queue, completed, cancelled, stopped, suppressed,
                   delivered, cursorLog, cursorSent, idleStops>>
    /\ UNCHANGED <<rvars, cvars>>

\* screencopy_start: accepted when the session is idle, an error while a
\* cycle is in flight.
screencopy_start(immediate) ==
    /\ session \in {"CREATED", "STARTED"}
    /\ session = "CREATED" => cycle < MaxCycles
    /\ IF session = "CREATED"
       THEN /\ session' = "STARTED"
            /\ cycle' = cycle + 1
            /\ ret' = 0
       ELSE /\ ret' = -1
            /\ UNCHANGED <<session, cycle>>
    /\ UNCHANGED <<queue, completed, cancelled, stopped, suppressed,
                   delivered, cursorLog, cursorSent, idleStops>>
    /\ UNCHANGED <<rvars, cvars>>

\* screencopy_stop cancelling the next cycle when none is in flight.
screencopy_stop_sticky ==
    /\ session \in {"CREATED", "STARTED", "FATAL"}
    /\ IF session = "STARTED"
       THEN /\ session' = "CREATED"
            /\ cancelled' = cancelled \cup {cycle}
            /\ stopped' = stopped \cup {cycle}
            /\ UNCHANGED idleStops
       ELSE /\ idleStops' = idleStops \cup {Idle}
            /\ cancelled' = cancelled \cup {cycle + 1}
            /\ UNCHANGED <<session, stopped>>
    /\ UNCHANGED <<cycle, ret, queue, completed, suppressed, delivered,
                   cursorLog, cursorSent>>
    /\ UNCHANGED <<rvars, cvars>>

\* screencopy_stop leaving the completion of the cycle deliverable.
screencopy_stop_forgetful ==
    /\ session \in {"CREATED", "STARTED", "FATAL"}
    /\ IF session = "STARTED"
       THEN /\ session' = "CREATED"
            /\ stopped' = stopped \cup {cycle}
            /\ UNCHANGED <<cancelled, idleStops>>
       ELSE /\ idleStops' = idleStops \cup {Idle}
            /\ UNCHANGED <<session, cancelled, stopped>>
    /\ UNCHANGED <<cycle, ret, queue, completed, suppressed, delivered,
                   cursorLog, cursorSent>>
    /\ UNCHANGED <<rvars, cvars>>

\* screencopy_stop: cancels the cycle in flight, if any.
screencopy_stop ==
    /\ session \in {"CREATED", "STARTED", "FATAL"}
    /\ IF session = "STARTED"
       THEN /\ session' = "CREATED"
            /\ cancelled' = cancelled \cup {cycle}
            /\ stopped' = stopped \cup {cycle}
            /\ UNCHANGED idleStops
       ELSE /\ idleStops' = idleStops \cup {Idle}
            /\ UNCHANGED <<session, cancelled, stopped>>
    /\ UNCHANGED <<cycle, ret, queue, completed, suppressed, delivered,
                   cursorLog, cursorSent>>
    /\ UNCHANGED <<rvars, cvars>>

\* screencopy_destroy: stops the cycle in flight, then releases the session.
screencopy_destroy ==
    /\ session \in {"CREATED", "STARTED", "FATAL"}
    /\ session' = "DESTROYED"
    /\ cancelled' = IF session = "STARTED" THEN cancelled \cup {cycle}
                    ELSE cancelled
    /\ UNCHANGED <<cycle, ret, queue, completed, stopped, suppressed,
                   delivered, cursorLog, cursorSent, idleStops>>
    /\ UNCHANGED <<rvars, cvars>>

\* The backend finishes the capture of the cycle in flight and enqueues its
\* completion.
BackendComplete ==
    /\ session = "STARTED"
    /\ cycle \notin completed
    /\ \E result \in screencopy_result :
          queue' = Append(queue, [kind |-> "done", cycle |-> cycle,
                                  result |-> result])
    /\ completed' = completed \cup {cycle}
    /\ UNCHANGED <<session, cycle, ret, cancelled, stopped, suppressed,
                   delivered, cursorLog, cursorSent, idleStops>>
    /\ UNCHANGED <<rvars, cvars>>

\* The backend enqueues a cursor event.
BackendCursor ==
    /\ session # "DESTROYED"
    /\ cursorSent < MaxCursor
    /\ \E k \in cursor_callbacks :
          queue' = Append(queue, [kind |-> k, cycle |-> 0,
                                  result |-> "none"])
    /\ cursorSent' = cursorSent + 1
    /\ UNCHANGED <<session, cycle, ret, completed, cancelled, stopped,
                   suppressed, delivered, cursorLog, idleStops>>
    /\ UNCHANGED <<rvars, cvars>>

\* Deliverable for a dispatch that does not look at cancellation.
Deliverable_stale(e) == session # "DESTROYED"

\* Deliverable for a dispatch that does not look at the session's state.
Deliverable_destroyed(e) == e.kind = "done" => e.cycle \notin cancelled

\* Whether the event e at the head of the queue reaches its callback.
Deliverable(e) ==
    /\ session # "DESTROYED"
    /\ e.kind = "done" => e.cycle \notin cancelled

\* The event loop dispatches the event at the head of the queue.
Dispatch ==
    /\ queue # <<>>
    /\ queue' = Tail(queue)
    /\ LET e == Head(queue)
       IN IF Deliverable(e)
          THEN IF e.kind = "done"
               THEN /\ delivered' = [delivered EXCEPT
                                        ![e.cycle] = Append(@, e.result)]
                    /\ session' = IF session = "DESTROYED"
                                     THEN session
                                  ELSE IF e.result = "SCREENCOPY_FATAL"
                                     THEN "FATAL"
                                  ELSE IF e.cycle = cycle THEN "CREATED"
                                  ELSE session
                    /\ UNCHANGED <<cursorLog, suppressed>>
               ELSE /\ cursorLog' = Append(cursorLog, e.kind)
                    /\ UNCHANGED <<delivered, session, suppressed>>
          ELSE /\ suppressed' = IF e.kind = "done"
                                THEN suppressed \cup {e.cycle}
                                ELSE suppressed
               /\ UNCHANGED <<delivered, session, cursorLog>>
    /\ UNCHANGED <<cycle, ret, completed, cancelled, stopped, cursorSent,
                   idleStops>>
    /\ UNCHANGED <<rvars, cvars>>

ScreencopyStart == \E immediate \in BOOLEAN : screencopy_start(immediate)

SNext ==
    \/ ScreencopyStart
    \/ screencopy_stop
    \/ screencopy_destroy
    \/ BackendComplete
    \/ BackendCursor
    \/ Dispatch

\* ------------------------------------------------------------ ctl-client.c
\* A C string is the sequence of its characters.
ArgHelp == <<"-", "-", "h", "e", "l", "p">>
ArgH == <<"-", "h">>
Help == <<"h", "e", "l", "p">>
Command == <<"c", "o", "m", "m", "a", "n", "d">>
EventReceive == <<"e", "v", "e", "n", "t", "-", "r", "e", "c", "e", "i", "v",
                  "e">>
Version == <<"v", "e", "r", "s", "i", "o", "n">>

EVT_LOCAL_SHUTDOWN == "wayvnc-shutdown"
EVT_LOCAL_STARTUP == "wayvnc-startup"

\* s[i] of the C string s, with its terminator.
CharAt(s, i) == IF i < Len(s) THEN s[i + 1] ELSE "NUL"

\* strchr(s, c): the index of the first c in s, 0-based; -1 for NULL.
strchr(s, c) ==
    IF \E i \in 1 .. Len(s) : s[i] = c
    THEN (CHOOSE i \in 1 .. Len(s) :
              s[i] = c /\ \A j \in 1 .. (i - 1) : s[j] # c) - 1
    ELSE -1

json_object == [k \in {} |-> <<>>]

json_object_set_new(object, key, value) ==
    [k \in (DOMAIN object) \cup {key} |->
        IF k = key THEN value ELSE object[k]]

\* The loop of ctl_client_parse_args from argv[i] on; av[i + 1] is argv[i].
RECURSIVE parse_args_loop(_, _, _, _)
parse_args_loop(av, i, params, show_usage) ==
    IF ~(i < Len(av))
    THEN [failure |-> FALSE, params |-> params, show_usage |-> show_usage]
    ELSE LET arg == av[i + 1]
             key == IF CharAt(arg, 0) = "-" /\ CharAt(arg, 1) = "-"
                    THEN SubSeq(arg, 3, Len(arg)) ELSE arg
             delim == strchr(key, "=")
         IN IF arg = ArgHelp \/ arg = ArgH
            THEN parse_args_loop(av, i + 1, params, TRUE)
            ELSE IF delim # -1
            THEN parse_args_loop(av, i + 1,
                     json_object_set_new(params, SubSeq(key, 1, delim),
                         SubSeq(key, delim + 2, Len(key))),
                     show_usage)
            ELSE IF i + 1 < Len(av)
            THEN parse_args_loop(av, i + 2,
                     json_object_set_new(params, key, av[i + 2]),
                     show_usage)
            ELSE [failure |-> TRUE, params |-> params,
                  show_usage |-> show_usage]

\* The request, in a sequence; the empty sequence for NULL.
ctl_client_parse_args(av) ==
    LET r == parse_args_loop(av, 1, json_object, FALSE)
    IN IF r.failure THEN <<>>
       ELSE IF r.show_usage
       THEN <<[method |-> Help,
               params |-> json_object_set_new(json_object, Command, av[1])]>>
       ELSE <<[method |-> av[1], params |-> r.params]>>

\* The bytes of the message id, of len bytes: each byte carries its message,
\* its place in the message and the length of the message.
Bytes(id, len) == [i \in 1 .. len |-> <<id, i, len>>]

\* json_loadb(buffer, buflen, 0, &err): the outcomes of decoding buf. With
\* flags 0 the whole input has to be one JSON text; on success err.position
\* is the length of the input. A text that another message cuts into is
\* cut in a string or between tokens.
json_loadb(buf) ==
    LET first == buf[1]
        len == first[3]
    IN IF first[2] # 1
       THEN {[root |-> NULL, code |-> "json_error_invalid_syntax",
              position |-> 0]}
       ELSE IF \E j \in 1 .. MIN(Len(buf), len) : buf[j] # <<first[1], j, len>>
       THEN {[root |-> NULL, code |-> c, position |-> 0] :
                c \in {"json_error_invalid_syntax",
                       "json_error_premature_end_of_input"}}
       ELSE IF Len(buf) < len
       THEN {[root |-> NULL, code |-> "json_error_premature_end_of_input",
              position |-> Len(buf)]}
       ELSE IF Len(buf) = len
       THEN {[root |-> first[1], code |-> "ok", position |-> Len(buf)]}
       ELSE {[root |-> NULL, code |-> "json_error_end_of_input_expected",
              position |-> len]}

advance_read_buffer(buf, current_len, advance_by) ==
    LET remainder == IF current_len - advance_by < 0 THEN 0
                     ELSE current_len - advance_by
    IN [read_buffer |-> SubSeq(buf, advance_by + 1, advance_by + remainder),
        read_len |-> remainder]

\* json_from_buffer: the outcomes, each with the root it returns (NULL for
\* none), errno, and the read buffer after it. e is errno before the call.
json_from_buffer(buf, len, e) ==
    IF len = 0
    THEN {[root |-> NULL, errno |-> "ENODATA", read_buffer |-> buf,
           read_len |-> len]}
    ELSE {IF o.root # NULL
          THEN LET a == advance_read_buffer(buf, len, o.position)
               IN [root |-> o.root, errno |-> e,
                   read_buffer |-> a.read_buffer, read_len |-> a.read_len]
          ELSE [root |-> NULL,
                errno |-> IF o.code = "json_error_premature_end_of_input"
                          THEN "ENODATA" ELSE "EINVAL",
                read_buffer |-> buf, read_len |-> len] :
             o \in json_loadb(SubSeq(buf, 1, len))}

\* The messages whose last byte is among the bytes b, in the order of b.
Completed(b) ==
    LET last == SelectSeq(b, LAMBDA x : x[2] = x[3])
    IN [i \in 1 .. Len(last) |-> last[i][1]]

\* The size recv is given, with the whole buffer taken for free.
recv_remainder_whole(len) == ReadBufferSize

\* The size read_one_object gives to recv.
recv_remainder(len) == ReadBufferSize - len

\* The chunks one recv returns when m bytes can be read: all of them, or
\* half of them.
RecvSizes(m) == {m, (m + 1) \div 2}

\* What the server sends: the shortest message, and one that does not fit
\* the read buffer.
MsgLens == {MinMsgLen, MaxMsgLen}

FlagSets == {{}, {"RECONNECT"}}

ArgTokens == {ArgHelp, ArgH, <<"-", "-", "a", "=", "x">>, <<"-", "-", "b">>,
              <<"y">>}

\* The argument vectors: a method name, and up to MaxArgs arguments.
Argvs ==
    UNION {{<<m>> \o a : a \in [1 .. n -> ArgTokens]} :
              m \in {EventReceive, Version}, n \in 0 .. MaxArgs}

\* A client that is connected and about to run the command av with flags fl.
CStart(av, fl) ==
    /\ argv = av
    /\ request = <<>>
    /\ pc = "run_command"
    /\ caller = "register"
    /\ read_buffer = <<>>
    /\ read_len = 0
    /\ wait_for_events = FALSE
    /\ sig_target = "NULL"
    /\ flags = fl
    /\ errno = "0"
    /\ run_result = 0
    /\ printed = <<>>
    /\ conn = "open"
    /\ wire = <<>>
    /\ pending = FALSE
    /\ subscribed = FALSE
    /\ server_up = TRUE
    /\ sent = <<>>
    /\ signals = 0
    /\ connects = 1
    /\ lastRecv = [readptr |-> 0, remainder |-> ReadBufferSize, n |-> 0]
    /\ arrived = <<>>
    /\ roots = <<>>

\* A client that runs no command.
CIdle == CStart(<<Version>>, {})

\* ctl_client_run_command up to the call of the event loop or of the single
\* command.
RunCommand ==
    /\ pc = "run_command"
    /\ request' = ctl_client_parse_args(argv)
    /\ IF request' = <<>>
       THEN pc' = "returned" /\ run_result' = 1 /\ UNCHANGED caller
       ELSE IF request'[1].method = EventReceive
       THEN pc' = "register" /\ caller' = "register" /\ UNCHANGED run_result
       ELSE pc' = "single_command" /\ UNCHANGED <<caller, run_result>>
    /\ UNCHANGED <<argv, read_buffer, read_len, wait_for_events, sig_target,
                   flags, errno, printed, conn, wire, pending, subscribed,
                   server_up, sent, signals, connects, lastRecv,
                   arrived, roots>>
    /\ UNCHANGED <<rvars, svars>>

\* ctl_client_register_for_events from the return of read_one_object on,
\* and what its caller does with the run_result: ctl_client_event_loop before
\* its loop, or the reconnect in the loop. root is the object read, NULL
\* when ctl_client_run_single_command failed.
ctl_client_register_for_events(root) ==
    LET res == IF root = NULL THEN -1
               ELSE IF sent[root].kind # "response" THEN -1
               ELSE sent[root].code
    IN /\ printed' = IF res = 0
                     THEN Append(printed, <<EVT_LOCAL_STARTUP, 0>>)
                     ELSE printed
       /\ IF caller = "register"
          THEN IF res # 0
               THEN /\ pc' = "returned"
                    /\ run_result' = res
                    /\ UNCHANGED <<wait_for_events, sig_target>>
               ELSE /\ wait_for_events' = TRUE
                    /\ sig_target' = "self"
                    /\ pc' = "loop"
                    /\ UNCHANGED run_result
          ELSE /\ IF res = 0
                  THEN pc' = "loop" /\ UNCHANGED run_result
                  ELSE pc' = "returned" /\ run_result' = 0
               /\ UNCHANGED <<wait_for_events, sig_target>>
       /\ UNCHANGED caller

\* The loop body of ctl_client_event_loop reconnecting without the flag.
ctl_client_event_loop_always_reconnect(root, err) ==
    /\ IF root = NULL
       THEN IF err = "ECONNRESET"
            THEN /\ printed' = Append(printed, <<EVT_LOCAL_SHUTDOWN, 0>>)
                 /\ pc' = "connect" /\ caller' = "reconnect"
                 /\ UNCHANGED run_result
            ELSE /\ pc' = "returned" /\ run_result' = 0
                 /\ UNCHANGED <<printed, caller>>
       ELSE /\ printed' = Append(printed, <<"event", root>>)
            /\ pc' = "loop"
            /\ UNCHANGED <<run_result, caller>>
    /\ UNCHANGED <<wait_for_events, sig_target>>

\* The loop body of ctl_client_event_loop from the return of
\* read_one_object on: root is the object read, err is errno.
ctl_client_event_loop(root, err) ==
    /\ IF root = NULL
       THEN IF err = "ECONNRESET"
            THEN /\ printed' = Append(printed, <<EVT_LOCAL_SHUTDOWN, 0>>)
                 /\ IF "RECONNECT" \in flags
                    THEN /\ pc' = "connect" /\ caller' = "reconnect"
                         /\ UNCHANGED run_result
                    ELSE /\ pc' = "returned" /\ run_result' = 0
                         /\ UNCHANGED caller
            ELSE /\ pc' = "returned" /\ run_result' = 0
                 /\ UNCHANGED <<printed, caller>>
       ELSE /\ printed' = Append(printed, <<"event", root>>)
            /\ pc' = "loop"
            /\ UNCHANGED <<run_result, caller>>
    /\ UNCHANGED <<wait_for_events, sig_target>>

\* read_one_object returns root to its caller, with errno err and the read
\* buffer buf[0 .. len - 1].
Return(root, err, buf, len) ==
    /\ read_buffer' = buf
    /\ read_len' = len
    /\ errno' = err
    /\ roots' = IF root = NULL THEN roots ELSE Append(roots, root)
    /\ IF caller = "event"
       THEN ctl_client_event_loop(root, err)
       ELSE ctl_client_register_for_events(root)

\* ctl_client_send_request, called by ctl_client_run_single_command.
SendRequest ==
    /\ pc = "register"
    /\ IF conn = "open"
       THEN /\ pending' = TRUE
            /\ pc' = "read"
            /\ UNCHANGED <<caller, errno, printed, run_result, wait_for_events,
                           sig_target>>
       ELSE /\ errno' = "EPIPE"
            /\ ctl_client_register_for_events(NULL)
            /\ UNCHANGED pending
    /\ UNCHANGED <<argv, request, read_buffer, read_len, flags, conn, wire,
                   subscribed, server_up, sent, signals, connects, lastRecv,
                   arrived, roots>>
    /\ UNCHANGED <<rvars, svars>>

\* read_one_object up to its loop.
ReadOneObject ==
    /\ pc = "read"
    /\ \E o \in json_from_buffer(read_buffer, read_len, errno) :
          IF o.root # NULL
          THEN Return(o.root, o.errno, o.read_buffer, o.read_len)
          ELSE IF o.errno = "ENODATA"
          THEN /\ pc' = "poll"
               /\ errno' = "ENODATA"
               /\ UNCHANGED <<caller, read_buffer, read_len, printed, run_result,
                              wait_for_events, sig_target, roots>>
          ELSE Return(NULL, o.errno, read_buffer, read_len)
    /\ UNCHANGED <<argv, request, flags, conn, wire, pending, subscribed,
                   server_up, sent, signals, connects, lastRecv,
                   arrived>>
    /\ UNCHANGED <<rvars, svars>>

\* The loop of read_one_object calls poll.
EnterPoll ==
    /\ pc = "poll"
    /\ pc' = "polling"
    /\ UNCHANGED <<argv, request, caller, read_buffer, read_len,
                   wait_for_events, sig_target, flags, errno, run_result, printed,
                   conn, wire, pending, subscribed, server_up, sent, signals,
                   connects, lastRecv,
                   arrived, roots>>
    /\ UNCHANGED <<rvars, svars>>

\* poll returns: there is something to read, or the peer is gone.
PollReturn ==
    /\ pc = "polling"
    /\ wire # <<>> \/ conn # "open"
    /\ pc' = "recv"
    /\ UNCHANGED <<argv, request, caller, read_buffer, read_len,
                   wait_for_events, sig_target, flags, errno, run_result, printed,
                   conn, wire, pending, subscribed, server_up, sent, signals,
                   connects, lastRecv,
                   arrived, roots>>
    /\ UNCHANGED <<rvars, svars>>

\* poll returns 0 after the 1000 ms ctl_client_wait_for_response gives it;
\* the event loop waits without a timeout.
PollTimeout ==
    /\ pc = "polling"
    /\ caller # "event"
    /\ wire = <<>> /\ conn = "open"
    /\ Return(NULL, errno, read_buffer, read_len)
    /\ UNCHANGED <<argv, request, flags, conn, wire, pending, subscribed,
                   server_up, sent, signals, connects, lastRecv,
                   arrived>>
    /\ UNCHANGED <<rvars, svars>>

\* poll has returned -1 with EINTR.
PollInterrupted ==
    /\ pc = "poll_eintr"
    /\ IF errno = "EINTR" /\ wait_for_events
       THEN /\ pc' = "poll"
            /\ UNCHANGED <<caller, read_buffer, read_len, errno, printed,
                           run_result, wait_for_events, sig_target, roots>>
       ELSE Return(NULL, errno, read_buffer, read_len)
    /\ UNCHANGED <<argv, request, flags, conn, wire, pending, subscribed,
                   server_up, sent, signals, connects, lastRecv,
                   arrived>>
    /\ UNCHANGED <<rvars, svars>>

\* recv into the rest of the read buffer, and json_from_buffer on what is
\* in the buffer then.
Recv ==
    /\ pc = "recv"
    /\ LET readptr == read_len
           remainder == recv_remainder(read_len)
       IN \/ /\ conn = "reset"
             /\ lastRecv' = [readptr |-> readptr, remainder |-> remainder,
                             n |-> -1]
             /\ Return(NULL, "ECONNRESET", read_buffer, read_len)
             /\ UNCHANGED <<wire, arrived>>
          \/ /\ conn # "reset"
             /\ remainder = 0 \/ (wire = <<>> /\ conn = "closed")
             /\ lastRecv' = [readptr |-> readptr, remainder |-> remainder,
                             n |-> 0]
             /\ Return(NULL, "ECONNRESET", read_buffer, read_len)
             /\ UNCHANGED <<wire, arrived>>
          \/ /\ conn # "reset"
             /\ remainder > 0
             /\ wire # <<>>
             /\ \E n \in RecvSizes(MIN(remainder, Len(wire))) :
                   LET buf == read_buffer \o SubSeq(wire, 1, n)
                       len == read_len + n
                   IN /\ wire' = SubSeq(wire, n + 1, Len(wire))
                      /\ arrived' = arrived \o Completed(SubSeq(wire, 1, n))
                      /\ lastRecv' = [readptr |-> readptr,
                                      remainder |-> remainder, n |-> n]
                      /\ \E o \in json_from_buffer(buf, len, errno) :
                            IF o.root # NULL
                            THEN Return(o.root, o.errno, o.read_buffer,
                                        o.read_len)
                            ELSE IF o.errno = "ENODATA"
                            THEN /\ pc' = "poll"
                                 /\ read_buffer' = buf
                                 /\ read_len' = len
                                 /\ errno' = "ENODATA"
                                 /\ UNCHANGED <<caller, printed, run_result,
                                                wait_for_events, sig_target,
                                                roots>>
                            ELSE Return(NULL, o.errno, buf, len)
    /\ UNCHANGED <<argv, request, flags, conn, pending, subscribed,
                   server_up, sent, signals, connects>>
    /\ UNCHANGED <<rvars, svars>>

\* The condition of the loop of ctl_client_event_loop, and the call of
\* read_one_object when it holds.
LoopCheck ==
    /\ pc = "loop"
    /\ IF wait_for_events
       THEN pc' = "read" /\ caller' = "event" /\ UNCHANGED run_result
       ELSE pc' = "returned" /\ run_result' = 0 /\ UNCHANGED caller
    /\ UNCHANGED <<argv, request, read_buffer, read_len, wait_for_events,
                   sig_target, flags, errno, printed, conn, wire, pending,
                   subscribed, server_up, sent, signals, connects, lastRecv,
                   arrived, roots>>
    /\ UNCHANGED <<rvars, svars>>

\* ctl_client_connect with timeout -1, called by
\* ctl_client_reconnect_event_loop: wait_for_socket finds the socket or
\* sleeps; try_connect opens a new connection or fails. The read buffer
\* stays as it is.
Connect ==
    /\ pc = "connect"
    /\ \/ /\ ~server_up
          /\ pc' = "usleep"
          /\ UNCHANGED <<conn, wire, pending, subscribed, connects, run_result>>
       \/ /\ server_up
          /\ connects < MaxConnects
          /\ conn' = "open"
          /\ wire' = <<>>
          /\ pending' = FALSE
          /\ subscribed' = FALSE
          /\ connects' = connects + 1
          /\ pc' = "register"
          /\ UNCHANGED run_result
       \/ /\ server_up
          /\ pc' = "returned"
          /\ run_result' = 0
          /\ UNCHANGED <<conn, wire, pending, subscribed, connects>>
    /\ UNCHANGED <<argv, request, caller, read_buffer, read_len,
                   wait_for_events, sig_target, flags, errno, printed,
                   server_up, sent, signals, lastRecv,
                   arrived, roots>>
    /\ UNCHANGED <<rvars, svars>>

\* usleep(50000) returns 0.
UsleepDone ==
    /\ pc = "usleep"
    /\ pc' = "connect"
    /\ UNCHANGED <<argv, request, caller, read_buffer, read_len,
                   wait_for_events, sig_target, flags, errno, run_result, printed,
                   conn, wire, pending, subscribed, server_up, sent, signals,
                   connects, lastRecv,
                   arrived, roots>>
    /\ UNCHANGED <<rvars, svars>>

\* usleep has returned -1: the reconnect fails and the loop ends.
UsleepInterrupted ==
    /\ pc = "usleep_eintr"
    /\ pc' = "returned"
    /\ run_result' = 0
    /\ UNCHANGED <<argv, request, caller, read_buffer, read_len,
                   wait_for_events, sig_target, flags, errno, printed, conn,
                   wire, pending, subscribed, server_up, sent, signals,
                   connects, lastRecv,
                   arrived, roots>>
    /\ UNCHANGED <<rvars, svars>>

\* SIGINT or SIGTERM is delivered after setup_signals: stop_loop runs, and
\* a poll or usleep in progress returns -1 with EINTR.
stop_loop ==
    /\ sig_target = "self"
    /\ pc # "returned"
    /\ signals < MaxSignals
    /\ signals' = signals + 1
    /\ wait_for_events' = FALSE
    /\ IF pc = "polling"
       THEN pc' = "poll_eintr" /\ errno' = "EINTR"
       ELSE IF pc = "usleep"
       THEN pc' = "usleep_eintr" /\ errno' = "EINTR"
       ELSE UNCHANGED <<pc, errno>>
    /\ UNCHANGED <<argv, request, caller, read_buffer, read_len, sig_target,
                   flags, run_result, printed, conn, wire, pending, subscribed,
                   server_up, sent, connects, lastRecv,
                   arrived, roots>>
    /\ UNCHANGED <<rvars, svars>>

\* The server answers the request.
ServerRespond ==
    /\ conn = "open"
    /\ pending
    /\ \E code \in {0, 1} :
          /\ sent' = Append(sent, [kind |-> "response", code |-> code,
                                   len |-> MinMsgLen])
          /\ subscribed' = (code = 0)
    /\ wire' = wire \o Bytes(Len(sent) + 1, MinMsgLen)
    /\ pending' = FALSE
    /\ UNCHANGED <<argv, request, pc, caller, read_buffer, read_len,
                   wait_for_events, sig_target, flags, errno, run_result, printed,
                   conn, server_up, signals, connects, lastRecv,
                   arrived, roots>>
    /\ UNCHANGED <<rvars, svars>>

\* The server sends an event to the registered client.
ServerEvent ==
    /\ conn = "open"
    /\ subscribed
    /\ Cardinality({i \in 1 .. Len(sent) : sent[i].kind = "event"}) < MaxMsgs
    /\ \E len \in MsgLens :
          /\ sent' = Append(sent, [kind |-> "event", code |-> 0,
                                   len |-> len])
          /\ wire' = wire \o Bytes(Len(sent) + 1, len)
    /\ UNCHANGED <<argv, request, pc, caller, read_buffer, read_len,
                   wait_for_events, sig_target, flags, errno, run_result, printed,
                   conn, pending, subscribed, server_up, signals, connects,
                   lastRecv, arrived, roots>>
    /\ UNCHANGED <<rvars, svars>>

\* The server closes the connection, or goes away with it.
ServerClose ==
    /\ conn = "open"
    /\ \E how \in {"closed", "reset"} :
          /\ conn' = how
          /\ wire' = IF how = "reset" THEN <<>> ELSE wire
    /\ \E up \in BOOLEAN : server_up' = up
    /\ pending' = FALSE
    /\ subscribed' = FALSE
    /\ UNCHANGED <<argv, request, pc, caller, read_buffer, read_len,
                   wait_for_events, sig_target, flags, errno, run_result, printed,
                   sent, signals, connects, lastRecv,
                   arrived, roots>>
    /\ UNCHANGED <<rvars, svars>>

\* The server is started again.
ServerStart ==
    /\ ~server_up
    /\ server_up' = TRUE
    /\ UNCHANGED <<argv, request, pc, caller, read_buffer, read_len,
                   wait_for_events, sig_target, flags, errno, run_result, printed,
                   conn, wire, pending, subscribed, sent, signals, connects,
                   lastRecv, arrived, roots>>
    /\ UNCHANGED <<rvars, svars>>

\* The steps of the client that need nothing but the client to go on.
ClientStep ==
    \/ RunCommand
    \/ SendRequest
    \/ ReadOneObject
    \/ EnterPoll
    \/ PollReturn
    \/ PollTimeout
    \/ PollInterrupted
    \/ Recv
    \/ LoopCheck
    \/ Connect
    \/ UsleepDone
    \/ UsleepInterrupted

CNext ==
    \/ RunCommand
    \/ SendRequest
    \/ ReadOneObject
    \/ EnterPoll
    \/ PollReturn
    \/ PollTimeout
    \/ PollInterrupted
    \/ Recv
    \/ LoopCheck
    \/ Connect
    \/ UsleepDone
    \/ UsleepInterrupted
    \/ stop_loop
    \/ ServerRespond
    \/ ServerEvent
    \/ ServerClose
    \/ ServerStart

ArgsNext == RunCommand

\* ---------------------------------------------------------- specifications
vars == <<rvars, svars, cvars>>

\* A refinery that is never called, for the behaviours of the session.
RIdle ==
    /\ self = damage_refinery_init(1, 1)
    /\ buffer = NewBuffer(1, 1, 0, FALSE, 0)
    /\ refined = {}
    /\ aborted = FALSE
    /\ op = "init"
    /\ call = NoCall
    /\ called = FALSE
    /\ dirty = {}
    /\ events = 0

\* The damage refinery and its caller.
Init == RInit /\ SInit /\ CIdle

Spec == Init /\ [][RNext]_vars

\* The damage refinery on the top-down buffers of more than one tile.
OrderInit ==
    /\ RInit
    /\ SInit
    /\ CIdle
    /\ ~buffer.y_inverted
    /\ UDIV_UP(self.width, TileSize) * UDIV_UP(self.height, TileSize) > 1

OrderSpec == OrderInit /\ [][RNext]_vars

\* The capture session, its consumer and its backend.
SessionInit == RIdle /\ SInit /\ CIdle

SessionSpec == SessionInit /\ [][SNext]_vars

\* The control client in its event loop, the server and the signals.
CtlInit ==
    /\ RIdle
    /\ SInit
    /\ \E fl \in FlagSets : CStart(<<EventReceive>>, fl)

CtlSpec == CtlInit /\ [][CNext]_vars

\* The same, with a client that goes on whenever it can: a poll with
\* something to read returns, a timeout expires, a sleep ends.
CtlLiveSpec == CtlInit /\ [][CNext]_vars /\ WF_vars(ClientStep)

\* ctl_client_parse_args on every argument vector.
ArgsInit ==
    /\ RIdle
    /\ SInit
    /\ \E av \in Argvs : CStart(av, {})

ArgsSpec == ArgsInit /\ [][ArgsNext]_vars

\* ------------------------------------------------------------ properties
Bounds(s) == Rect(0, 0, s.width, s.height)

TileRect(t) == Rect(t[1] * TileSize, t[2] * TileSize, TileSize, TileSize)

\* The refinery the call that has just returned started from.
SelfBefore == [self EXCEPT !.hashes = call.hashes]

\* What that call returned.
Returned == [self |-> self, refined |-> refined, hint |-> call.hintAfter,
             aborted |-> aborted]

Refined == op = "refine" /\ ~aborted

NoZeroHash ==
    \A t \in Tiles(self) : damage_hash_tile(self, t[1], t[2], buffer) # 0

\* C1: the first damage_refine call after damage_refinery_init, with an
\* empty region and a buffer none of whose tiles hashes to 0, leaves the
\* region equal to the rectangle (0, 0, width, height).
C1_FirstFrameFullyDamaged ==
    (Refined /\ ~call.called /\ call.refined = {} /\ NoZeroHash)
        => refined = Rect(0, 0, self.width, self.height)

C1_Witness ==
    /\ Refined /\ ~call.called /\ call.refined = {} /\ NoZeroHash
    /\ self.width % TileSize # 0
    /\ self.height % TileSize # 0
    /\ refined = Rect(0, 0, self.width, self.height)

\* C2: a damage_refine call on the image of the call before it, with an
\* empty region, leaves the region empty and every stored hash as it was.
C2_IdempotentOnUnchanged ==
    (Refined /\ call.called /\ call.changed = {} /\ call.refined = {})
        => (refined = {} /\ self.hashes = call.hashes)

C2_Witness ==
    /\ Refined /\ call.called /\ call.changed = {} /\ call.refined = {}
    /\ events > 0
    /\ refined = {}
    /\ \E i \in DOMAIN self.hashes : self.hashes[i] # 0

\* C3: when only pixels of one tile changed since the call before, and the
\* hash of that tile changed, a call with an empty region leaves the region
\* equal to that tile's rectangle cut to the buffer.
C3_SingleTileLocality ==
    \A t \in Tiles(self) :
        (/\ Refined /\ call.called /\ call.refined = {}
         /\ call.changed = {t}
         /\ self.hashes[damage_tile_hash_ptr(self, t[1], t[2])]
               # call.hashes[damage_tile_hash_ptr(self, t[1], t[2])])
            => refined = TileRect(t) \cap Bounds(self)

C3_Witness ==
    /\ Refined /\ call.called /\ call.refined = {}
    /\ call.changed = {<<1, 1>>}
    /\ self.hashes[damage_tile_hash_ptr(self, 1, 1)]
          # call.hashes[damage_tile_hash_ptr(self, 1, 1)]
    /\ refined = Rect(TileSize, TileSize, self.width - TileSize,
                      self.height - TileSize)

\* C4 as stated: every point of the region the caller passed is in the
\* region after the call.
C4_NothingRemoved == op = "refine" => call.refined \subseteq refined

\* C4: every point of the region the caller passed that lies in the
\* rectangle (0, 0, width, height) is in the region after the call.
C4_NothingInsideRemoved ==
    op = "refine" => (call.refined \cap Bounds(self)) \subseteq refined

C4_Witness ==
    /\ Refined
    /\ self.hashes = call.hashes
    /\ call.refined \cap Bounds(self) # {}
    /\ call.refined \ Bounds(self) # {}
    /\ refined = call.refined \cap Bounds(self)

\* C5: the buffer that stores the same image in the other row order, with
\* the same width, height and stride, has the same hash in every tile, and
\* damage_refine on it returns the same region and the same hashes.
C5_YInversionEquivalence ==
    Refined =>
        \A other \in {Flip(buffer)} :
            /\ \A t \in Tiles(self) :
                  damage_hash_tile(self, t[1], t[2], other)
                     = damage_hash_tile(self, t[1], t[2], buffer)
            /\ damage_refine(SelfBefore, call.refined, call.hint, other)
                  = Returned

C5_Witness ==
    /\ Refined
    /\ buffer.y_inverted
    /\ Flip(buffer).pixels # buffer.pixels
    /\ call.changed # {}
    /\ self.hashes # call.hashes

\* C6: damage_refine with a buffer whose width or height is not the
\* refinery's fails its assertion and changes no stored hash and no point of
\* the caller's region.
C6_MismatchFailsFast ==
    (op = "refine" /\ (self.width # buffer.width
                          \/ self.height # buffer.height))
        => (aborted /\ self.hashes = call.hashes /\ refined = call.refined)

C6_Witness ==
    /\ op = "refine" /\ aborted
    /\ self.width = buffer.width /\ self.height # buffer.height
    /\ refined # {}
    /\ \E i \in DOMAIN self.hashes : self.hashes[i] # 0

\* C7: for every hint the call returns the same region and the same hashes,
\* and the hint as it was passed.
C7_HintIgnored ==
    op = "refine" =>
        /\ call.hintAfter = call.hint
        /\ \A h \in Hints :
              damage_refine(SelfBefore, call.refined, h, buffer)
                 = [Returned EXCEPT !.hint = h]

C7_Witness ==
    /\ Refined
    /\ call.hint = SomeHint
    /\ self.hashes # call.hashes
    /\ \E p \in refined \ call.refined : p \notin SomeHint.region

\* Cycles whose completion the event loop has taken off the queue.
Dispatched ==
    {c \in completed : \A i \in 1 .. Len(queue) :
                          ~(queue[i].kind = "done" /\ queue[i].cycle = c)}

\* C8: on_done is invoked at most once per accepted start, and with one of
\* DONE, FAILED, FATAL; never for a cycle that was stopped; and once for a
\* cycle whose completion was dispatched without a stop.
C8_OutcomeExclusive ==
    \A c \in 1 .. cycle :
        /\ Len(delivered[c]) <= 1
        /\ \A i \in 1 .. Len(delivered[c]) :
              delivered[c][i] \in {"SCREENCOPY_DONE", "SCREENCOPY_FAILED",
                                   "SCREENCOPY_FATAL"}
        /\ c \in stopped => delivered[c] = <<>>
        /\ (c \in Dispatched /\ c \notin cancelled)
              => Len(delivered[c]) = 1

C8_Witness ==
    /\ cycle = 2
    /\ 1 \in stopped /\ 1 \in completed /\ delivered[1] = <<>>
    /\ delivered[2] = <<"SCREENCOPY_FAILED">>
    /\ queue = <<>>

\* C9: after screencopy_stop has returned, on_done is not invoked for the
\* cycle it cancelled, whether or not the completion was enqueued already.
C9_StopSuppresses ==
    [][\A c \in stopped : delivered'[c] = delivered[c]]_vars

C9_Witness ==
    /\ 1 \in stopped
    /\ 1 \in suppressed
    /\ session = "STARTED"
    /\ cycle = 2

\* C10: screencopy_destroy can be called in every state of the session;
\* after it no cycle is in flight, and no callback is invoked any more.
C10_DestroyFinal ==
    /\ [](session # "DESTROYED" => ENABLED screencopy_destroy)
    /\ [](session = "DESTROYED" =>
             \A c \in 1 .. cycle : c \in cancelled \/ c \in Dispatched)
    /\ [][session = "DESTROYED" =>
             /\ session' = "DESTROYED"
             /\ delivered' = delivered
             /\ cursorLog' = cursorLog]_vars

C10_Witness ==
    /\ session = "DESTROYED"
    /\ cycle \in cancelled \ stopped
    /\ cycle \in suppressed
    /\ Len(cursorLog) < cursorSent
    /\ queue = <<>>

\* The cycles accepted and neither completed to the consumer nor cancelled.
InFlight ==
    {c \in 1 .. cycle : c \notin cancelled /\ delivered[c] = <<>>}

\* C11: at most one cycle is in flight, and it is the current one; a
\* screencopy_start while a cycle is in flight returns an error and leaves
\* the cycle, its enqueued completion and the session as they were; the
\* completion of that cycle is still delivered once.
C11_OneInFlight ==
    /\ [](/\ Cardinality(InFlight) <= 1
          /\ InFlight \subseteq {cycle}
          /\ session = "STARTED" => InFlight = {cycle}
          /\ (ret = -1 /\ cycle \in Dispatched /\ cycle \notin cancelled)
                => Len(delivered[cycle]) = 1)
    /\ [][(session = "STARTED" /\ ScreencopyStart)
            => /\ ret' = -1
               /\ UNCHANGED <<session, cycle, queue, completed, cancelled,
                              stopped, suppressed, delivered>>]_vars

C11_Witness ==
    /\ ret = -1
    /\ cycle = 1
    /\ session = "CREATED"
    /\ delivered[1] = <<"SCREENCOPY_DONE">>

\* C12: screencopy_stop with no cycle in flight changes nothing of the
\* session and invokes no callback; no cycle is cancelled before it was
\* started, and an idle session still accepts a start.
C12_StopIdempotent ==
    /\ [][(session # "STARTED" /\ screencopy_stop)
            => UNCHANGED <<session, cycle, ret, queue, completed, cancelled,
                           stopped, suppressed, delivered, cursorLog,
                           cursorSent>>]_vars
    /\ [](cancelled \subseteq 1 .. cycle)
    /\ [](session = "CREATED" /\ cycle < MaxCycles
            => ENABLED (screencopy_start(TRUE) /\ ret' = 0
                          /\ session' = "STARTED"))

C12_Witness ==
    /\ idleStops = {"never started", "completed", "stopped"}
    /\ cycle = 2
    /\ 1 \in stopped
    /\ Len(delivered[2]) = 1

\* The tiles whose stored hash the call that has just returned changed.
Damaged ==
    {t \in Tiles(self) :
        self.hashes[damage_tile_hash_ptr(self, t[1], t[2])]
           # call.hashes[damage_tile_hash_ptr(self, t[1], t[2])]}

\* C13: after damage_refine has returned, the stored hash of every tile is
\* the hash of the tile's content; the region is the caller's region and
\* the rectangles of exactly the tiles whose hash differs from the one
\* stored before the call, cut to the buffer; the other tiles keep their
\* stored hash.
C13_CompareAndUpdate ==
    Refined =>
        /\ \A t \in Tiles(self) :
              self.hashes[damage_tile_hash_ptr(self, t[1], t[2])]
                 = damage_hash_tile(self, t[1], t[2], buffer)
        /\ refined = (call.refined \cup UNION {TileRect(t) : t \in Damaged})
                         \cap Bounds(self)
        /\ DOMAIN self.hashes = DOMAIN call.hashes

C13_Witness ==
    /\ Refined /\ call.called
    /\ call.refined = {}
    /\ Damaged = {<<1, 0>>}
    /\ Cardinality(Tiles(self)) = 4
    /\ refined = Rect(TileSize, 0, self.width - TileSize, TileSize)
    /\ \A i \in DOMAIN self.hashes : self.hashes[i] # 0

\* C14: after damage_refine has returned, every point of the region lies in
\* the rectangle (0, 0, width, height), also when the right and bottom
\* tiles are partial and when the caller's region reached beyond it.
C14_RegionInsideImage == Refined => refined \subseteq Bounds(self)

C14_Witness ==
    /\ Refined
    /\ self.width % TileSize # 0
    /\ self.height % TileSize # 0
    /\ <<1, 1>> \in Damaged
    /\ call.refined \ Bounds(self) # {}
    /\ <<self.width - 1, self.height - 1>> \in refined

\* The orders the tiles of a grid can be visited in.
Orders(T) ==
    {o \in [1 .. Cardinality(T) -> T] :
        \A i, j \in 1 .. Cardinality(T) : o[i] = o[j] => i = j}

\* C15: visiting the tiles in any order, from the same stored hashes,
\* buffer and region, damage_refine returns the same region and the same
\* stored hashes.
C15_VisitOrderIndependent ==
    Refined =>
        \A order \in Orders(Tiles(self)) :
            damage_refine_in_order(SelfBefore, call.refined, call.hint,
                                   buffer, order) = Returned

C15_Witness ==
    /\ Refined /\ call.called
    /\ Cardinality(Orders(Tiles(self))) = 24
    /\ Damaged # {}
    /\ Damaged # Tiles(self)

\* C16: once a signal was delivered to the client in its event loop, the
\* loop returns, whatever the client was doing and whether or not the
\* server sends anything more.
C16_SignalStopsLoop == (signals > 0) ~> (pc = "returned")

\* C17: when an argument after the method name is --help or -h, the
\* request is help with the one parameter command, the method name.
C17_HelpConversion ==
    (/\ pc # "run_command"
     /\ \E i \in 2 .. Len(argv) : argv[i] \in {ArgHelp, ArgH})
        => request = <<[method |-> Help,
                        params |-> json_object_set_new(json_object, Command,
                                                       argv[1])]>>

\* C18: read_len never exceeds the size of the read buffer, the buffer
\* holds read_len bytes, and every recv is given the part of the buffer
\* from read_len to its end and returns no more than fits there.
C18_ReadBufferBound ==
    /\ read_len <= ReadBufferSize
    /\ Len(read_buffer) = read_len
    /\ lastRecv.readptr >= 0
    /\ lastRecv.readptr + lastRecv.remainder = ReadBufferSize
    /\ lastRecv.n <= lastRecv.remainder

C18_Witness ==
    /\ read_len = ReadBufferSize
    /\ pc = "poll"
    /\ lastRecv.readptr > 0
    /\ lastRecv.n = lastRecv.remainder
    /\ wire # <<>>

\* The last event printed is the local event name, printed in this step.
PrintedNow(name) ==
    /\ Len(printed') = Len(printed) + 1
    /\ printed'[Len(printed')] = <<name, 0>>

\* C19: read_one_object fails with ECONNRESET, and the event loop prints
\* the shutdown event, only when the peer has closed the connection.
C19_DisconnectOnlyWhenClosed ==
    [][/\ (pc = "recv" /\ errno' = "ECONNRESET") => conn # "open"
       /\ PrintedNow(EVT_LOCAL_SHUTDOWN) => conn # "open"]_vars

\* The local events printed so far.
LocalEvents == SelectSeq(printed, LAMBDA e : e[2] = 0)

Startups ==
    Cardinality({i \in 1 .. Len(LocalEvents) :
                    LocalEvents[i][1] = EVT_LOCAL_STARTUP})

\* C20: the local events printed are startup, shutdown, startup, ... in
\* turn; a startup is printed in exactly the steps in which a registration
\* returns with code 0, so there are no more startups than connections and
\* than responses with code 0; without RECONNECT the loop ends with the
\* shutdown event.
C20_StartupShutdownAlternate ==
    /\ [](/\ \A i \in 1 .. Len(LocalEvents) :
                LocalEvents[i][1] = IF i % 2 = 1 THEN EVT_LOCAL_STARTUP
                                    ELSE EVT_LOCAL_SHUTDOWN
          /\ Startups <= connects
          /\ Startups <= Cardinality({i \in 1 .. Len(sent) :
                              sent[i].kind = "response" /\ sent[i].code = 0}))
    /\ [][/\ PrintedNow(EVT_LOCAL_STARTUP)
               <=> (caller # "event" /\ pc # "loop" /\ pc' = "loop")
          /\ (PrintedNow(EVT_LOCAL_SHUTDOWN) /\ "RECONNECT" \notin flags)
               => pc' = "returned"
          /\ (PrintedNow(EVT_LOCAL_SHUTDOWN) /\ "RECONNECT" \in flags)
               => pc' = "connect"]_vars

C20_Witness ==
    /\ Len(LocalEvents) = 4
    /\ connects = 2
    /\ pc = "returned"
    /\ \E i \in 1 .. Len(printed) : printed[i][1] = "event"

\* C21: every complete object that has arrived on the connection is
\* returned by exactly one call of read_one_object, in the order of arrival:
\* the objects returned are the first of those that arrived, and as long as
\* one that arrived is not returned yet, its bytes wait in the read buffer
\* and the client is on its way to the next call of read_one_object, not
\* polling the socket and not gone, unless a signal has stopped the loop.
C21_InOrderExactlyOnce ==
    /\ Len(roots) <= Len(arrived)
    /\ roots = SubSeq(arrived, 1, Len(roots))
    /\ roots # arrived =>
          \/ pc \in {"loop", "read"}
          \/ pc = "returned" /\ signals > 0

\* C22: when the event loop has connected again and reads the first
\* response on the new connection, the read buffer is empty.
C22_NoStaleBytes ==
    (pc = "read" /\ caller = "reconnect") => read_len = 0

====
